---- MODULE Spec2Model ----
(***************************************************************************)
(* A model of OTSR_dev/code/models/SRGAN_model.py (class SRGANModel):      *)
(*   - optimize_parameters: one alternating generator/discriminator step,  *)
(*     modelled statement group by statement group (pc holds the line),    *)
(*   - back_projection: bicubic down/up-sampling of the residual,          *)
(*   - forward_chop: recursive four-quadrant tiling with an explicit       *)
(*     call stack.                                                         *)
(* Tensors of losses are abstracted to the list of terms they sum; images  *)
(* are functions row -> column -> value over 0-based index ranges.         *)
(***************************************************************************)
EXTENDS Integers, Sequences, FiniteSets, TLC

VARIABLES
    train_opt,        \* opt['train']: weights, gan_type, D_update_ratio, D_init_iters
    edge_enhance,     \* constructor argument edge_enhance
    pc,               \* position inside optimize_parameters ("idle" between calls)
    step,             \* the argument of the running (or last) call
    requires_grad_D,  \* p.requires_grad of the parameters of netD
    paramsG,          \* number of optimizer_G.step() applied to netG
    paramsD,          \* number of optimizer_D.step() applied to netD
    paramsG0,         \* paramsG when the running call was entered
    paramsD0,         \* paramsD when the running call was entered
    l_g_total,        \* local l_g_total: the terms added to the int 0
    l_g_gan,          \* local l_g_gan: "unbound" or "bound"
    trace,            \* operations executed by the running (or last) call, in order
    log_dict,         \* self.log_dict: its keys in insertion order
    written,          \* keys assigned to log_dict by the running (or last) call
    outcome,          \* how the last call ended: "none", "returned" or the exception
    script,           \* steps still to be called in the scripted scenario
    bp,               \* back_projection: opt['scale'], lamda, var_L, fake_H, pc
    chop              \* forward_chop: arguments, call stack, result

vars == <<train_opt, edge_enhance, pc, step, requires_grad_D, paramsG, paramsD,
          paramsG0, paramsD0, l_g_total, l_g_gan, trace, log_dict, written,
          outcome, script, bp, chop>>

trainVars == <<train_opt, edge_enhance, pc, step, requires_grad_D, paramsG, paramsD,
               paramsG0, paramsD0, l_g_total, l_g_gan, trace, log_dict, written,
               outcome, script>>

----------------------------------------------------------------------------
(* Bounds of the model *)

MaxStep == 4          \* steps passed to optimize_parameters are 0..MaxStep
MaxRatio == 2         \* configured D_update_ratio is 0 (absent) .. MaxRatio
MaxInitIters == 1     \* configured D_init_iters is 0 (absent) .. MaxInitIters
MaxUpdates == 3       \* calls are made while paramsD < MaxUpdates

Range(s) == {s[i] : i \in DOMAIN s}

----------------------------------------------------------------------------
(* Configuration read by __init__ *)

GanTypes == {"gan", "ragan", "wgan-qc", "foo"}

Weights == {0, 1}

\* the branches of the if/elif chains on opt['train']['gan_type']
GanKnown_always(t) == TRUE

GanKnown(t) == t \in {"gan", "ragan", "wgan-qc"}

\* self.cri_pix is a criterion (truthy) or None
cri_pix_always == TRUE

cri_pix == train_opt.pixel_weight > 0

\* self.cri_fea is a criterion (truthy) or None; netF exists with it
cri_fea == train_opt.feature_weight > 0

D_update_ratio ==
    IF train_opt.D_update_ratio # 0 THEN train_opt.D_update_ratio ELSE 1

D_init_iters ==
    IF train_opt.D_init_iters # 0 THEN train_opt.D_init_iters ELSE 0

\* the condition of lines 165 and 249
Gate_ge(s) == s % D_update_ratio = 0 /\ s >= D_init_iters

Gate_ratio_only(s) == s % D_update_ratio = 0

Gate(s) == s % D_update_ratio = 0 /\ s > D_init_iters

\* self.log_dict[k] = v on an OrderedDict: a new key goes last, an old one stays
LogSet(log, k) == IF k \in Range(log) THEN log ELSE Append(log, k)

GKeys == {"l_g_pix", "l_g_fea", "l_g_gan"}

DKeys == {"l_d_real", "l_d_fake", "D_real", "D_fake"}

----------------------------------------------------------------------------
(* optimize_parameters *)

InitTrain ==
    /\ train_opt \in [pixel_weight : Weights, feature_weight : Weights,
                      gan_weight : Weights, edge_weight : Weights,
                      gan_type : GanTypes,
                      D_update_ratio : 0..MaxRatio,
                      D_init_iters : 0..MaxInitIters]
    /\ edge_enhance \in BOOLEAN
    /\ pc = "idle"
    /\ step = 0
    /\ requires_grad_D = TRUE
    /\ paramsG = 0
    /\ paramsD = 0
    /\ paramsG0 = 0
    /\ paramsD0 = 0
    /\ l_g_total = <<>>
    /\ l_g_gan = "unbound"
    /\ trace = <<>>
    /\ log_dict = <<>>
    /\ written = {}
    /\ outcome = "none"

\* entry of optimize_parameters(step): fresh locals
Enter(s) ==
    /\ pc = "idle"
    /\ step' = s
    /\ pc' = "L157"
    /\ paramsG0' = paramsG
    /\ paramsD0' = paramsD
    /\ l_g_total' = <<>>
    /\ l_g_gan' = "unbound"
    /\ trace' = <<>>
    /\ written' = {}
    /\ outcome' = "none"
    /\ UNCHANGED <<train_opt, edge_enhance, requires_grad_D, paramsG, paramsD,
                   log_dict, bp, chop>>

Call ==
    /\ script = <<>>
    /\ paramsD < MaxUpdates
    /\ \E s \in 0..MaxStep : Enter(s)
    /\ UNCHANGED script

ScriptedCall ==
    /\ script # <<>>
    /\ Enter(Head(script))
    /\ script' = Tail(script)

\* an exception leaves the method: locals are dropped, fields stay as they are
Raise(e) ==
    /\ pc' = "idle"
    /\ outcome' = e

Do(ops) == trace' = trace \o ops

\* lines 157-158
FreezeD ==
    /\ pc = "L157"
    /\ requires_grad_D' = FALSE
    /\ Do(<<"freeze_D">>)
    /\ pc' = "L161"
    /\ UNCHANGED <<train_opt, edge_enhance, step, paramsG, paramsD, paramsG0, paramsD0,
                   l_g_total, l_g_gan, log_dict, written, outcome, script, bp, chop>>

\* lines 161-164
ForwardG ==
    /\ pc = "L161"
    /\ Do(<<"zero_grad_G", "netG">>)
    /\ l_g_total' = <<>>
    /\ pc' = "L165"
    /\ UNCHANGED <<train_opt, edge_enhance, step, requires_grad_D, paramsG, paramsD,
                   paramsG0, paramsD0, l_g_gan, log_dict, written, outcome, script,
                   bp, chop>>

\* line 165
TestGate ==
    /\ pc = "L165"
    /\ pc' = IF Gate(step) THEN "L166" ELSE "L203"
    /\ UNCHANGED <<train_opt, edge_enhance, step, requires_grad_D, paramsG, paramsD,
                   paramsG0, paramsD0, l_g_total, l_g_gan, trace, log_dict, written,
                   outcome, script, bp, chop>>

\* lines 166-168
PixelLoss ==
    /\ pc = "L166"
    /\ IF cri_pix
         THEN Do(<<"cri_pix">>) /\ l_g_total' = Append(l_g_total, "l_g_pix")
         ELSE UNCHANGED <<trace, l_g_total>>
    /\ pc' = "L169"
    /\ UNCHANGED <<train_opt, edge_enhance, step, requires_grad_D, paramsG, paramsD,
                   paramsG0, paramsD0, l_g_gan, log_dict, written, outcome, script,
                   bp, chop>>

\* lines 169-173
FeatureLoss ==
    /\ pc = "L169"
    /\ IF cri_fea
         THEN Do(<<"netF", "netF", "cri_fea">>)
              /\ l_g_total' = Append(l_g_total, "l_g_fea")
         ELSE UNCHANGED <<trace, l_g_total>>
    /\ pc' = "L175"
    /\ UNCHANGED <<train_opt, edge_enhance, step, requires_grad_D, paramsG, paramsD,
                   paramsG0, paramsD0, l_g_gan, log_dict, written, outcome, script,
                   bp, chop>>

\* lines 175-185: no branch of the chain binds l_g_gan for another gan_type
GanLossG ==
    /\ pc = "L175"
    /\ IF GanKnown(train_opt.gan_type)
         THEN /\ Do(IF train_opt.gan_type = "gan"
                      THEN <<"netD_fake", "cri_gan_G">>
                      ELSE IF train_opt.gan_type = "ragan"
                             THEN <<"netD_fake", "netD_ref", "cri_gan_G", "cri_gan_G">>
                             ELSE <<"netD_fake", "netD_ref">>)
              /\ l_g_gan' = "bound"
         ELSE /\ Do(<<"netD_fake">>)
              /\ UNCHANGED l_g_gan
    /\ pc' = "L187"
    /\ UNCHANGED <<train_opt, edge_enhance, step, requires_grad_D, paramsG, paramsD,
                   paramsG0, paramsD0, l_g_total, log_dict, written, outcome, script,
                   bp, chop>>

\* line 187
AddGan ==
    /\ pc = "L187"
    /\ IF l_g_gan = "bound"
         THEN /\ l_g_total' = Append(l_g_total, "l_g_gan")
              /\ pc' = "L189"
              /\ UNCHANGED outcome
         ELSE /\ Raise("UnboundLocalError")
              /\ UNCHANGED l_g_total
    /\ UNCHANGED <<train_opt, edge_enhance, step, requires_grad_D, paramsG, paramsD,
                   paramsG0, paramsD0, l_g_gan, trace, log_dict, written, script,
                   bp, chop>>

\* lines 189-196
EdgeLoss ==
    /\ pc = "L189"
    /\ IF edge_enhance
         THEN Do(<<"cril_edge", "cril_edge">>)
              /\ l_g_total' = Append(l_g_total, "l_g_edge")
         ELSE UNCHANGED <<trace, l_g_total>>
    /\ pc' = "L198"
    /\ UNCHANGED <<train_opt, edge_enhance, step, requires_grad_D, paramsG, paramsD,
                   paramsG0, paramsD0, l_g_gan, log_dict, written, outcome, script,
                   bp, chop>>

\* line 198
BackwardG ==
    /\ pc = "L198"
    /\ Do(<<"backward_G">>)
    /\ pc' = "L199"
    /\ UNCHANGED <<train_opt, edge_enhance, step, requires_grad_D, paramsG, paramsD,
                   paramsG0, paramsD0, l_g_total, l_g_gan, log_dict, written, outcome,
                   script, bp, chop>>

ClipG_skipped ==
    /\ pc = "L199"
    /\ pc' = "L200"
    /\ UNCHANGED <<train_opt, edge_enhance, step, requires_grad_D, paramsG, paramsD,
                   paramsG0, paramsD0, l_g_total, l_g_gan, trace, log_dict, written,
                   outcome, script, bp, chop>>

\* line 199
ClipG ==
    /\ pc = "L199"
    /\ Do(<<"clip_grad_norm_G">>)
    /\ pc' = "L200"
    /\ UNCHANGED <<train_opt, edge_enhance, step, requires_grad_D, paramsG, paramsD,
                   paramsG0, paramsD0, l_g_total, l_g_gan, log_dict, written, outcome,
                   script, bp, chop>>

\* line 200
StepG ==
    /\ pc = "L200"
    /\ Do(<<"optimizer_G.step">>)
    /\ paramsG' = paramsG + 1
    /\ pc' = "L203"
    /\ UNCHANGED <<train_opt, edge_enhance, step, requires_grad_D, paramsD,
                   paramsG0, paramsD0, l_g_total, l_g_gan, log_dict, written, outcome,
                   script, bp, chop>>

\* lines 203-204
UnfreezeD ==
    /\ pc = "L203"
    /\ requires_grad_D' = TRUE
    /\ Do(<<"unfreeze_D">>)
    /\ pc' = "L206"
    /\ UNCHANGED <<train_opt, edge_enhance, step, paramsG, paramsD, paramsG0, paramsD0,
                   l_g_total, l_g_gan, log_dict, written, outcome, script, bp, chop>>

\* lines 206-208
ForwardD ==
    /\ pc = "L206"
    /\ Do(<<"zero_grad_D", "netD_ref">>)
    /\ pc' = "L211"
    /\ UNCHANGED <<train_opt, edge_enhance, step, requires_grad_D, paramsG, paramsD,
                   paramsG0, paramsD0, l_g_total, l_g_gan, log_dict, written, outcome,
                   script, bp, chop>>

\* lines 211-241: the else branch raises (NotImplementedError, or the
\* AttributeError of its message's self.gan_type: the call ends either way)
LossD ==
    /\ pc = "L211"
    /\ IF GanKnown(train_opt.gan_type)
         THEN /\ Do(IF train_opt.gan_type = "wgan-qc"
                      THEN <<"netD_fake_detached", "H_Star_Solution", "WGAN_QC_regul",
                             "cri_gan_D", "cri_gan_D">>
                      ELSE <<"netD_fake_detached", "cri_gan_D", "cri_gan_D">>)
              /\ pc' = "L243"
              /\ UNCHANGED outcome
         ELSE /\ Raise("NotImplementedError")
              /\ UNCHANGED trace
    /\ UNCHANGED <<train_opt, edge_enhance, step, requires_grad_D, paramsG, paramsD,
                   paramsG0, paramsD0, l_g_total, l_g_gan, log_dict, written, script,
                   bp, chop>>

\* line 243
BackwardD ==
    /\ pc = "L243"
    /\ Do(<<"backward_D">>)
    /\ pc' = "L244"
    /\ UNCHANGED <<train_opt, edge_enhance, step, requires_grad_D, paramsG, paramsD,
                   paramsG0, paramsD0, l_g_total, l_g_gan, log_dict, written, outcome,
                   script, bp, chop>>

\* line 244
StepD ==
    /\ pc = "L244"
    /\ Do(<<"optimizer_D.step">>)
    /\ paramsD' = paramsD + 1
    /\ pc' = "L246"
    /\ UNCHANGED <<train_opt, edge_enhance, step, requires_grad_D, paramsG,
                   paramsG0, paramsD0, l_g_total, l_g_gan, log_dict, written, outcome,
                   script, bp, chop>>

\* lines 246-247: l_g_total is still the int 0 when nothing was added to it
Totals ==
    /\ pc = "L246"
    /\ IF l_g_total # <<>>
         THEN pc' = "L249" /\ UNCHANGED outcome
         ELSE Raise("AttributeError")
    /\ UNCHANGED <<train_opt, edge_enhance, step, requires_grad_D, paramsG, paramsD,
                   paramsG0, paramsD0, l_g_total, l_g_gan, trace, log_dict, written,
                   script, bp, chop>>

\* lines 249-255
LogG ==
    /\ pc = "L249"
    /\ LET ks == IF Gate(step)
                   THEN (IF cri_pix THEN <<"l_g_pix">> ELSE <<>>)
                        \o (IF cri_fea THEN <<"l_g_fea">> ELSE <<>>)
                        \o <<"l_g_gan">>
                   ELSE <<>>
           put[i \in 0..Len(ks)] ==
               IF i = 0 THEN log_dict ELSE LogSet(put[i - 1], ks[i])
       IN /\ log_dict' = put[Len(ks)]
          /\ written' = written \cup Range(ks)
    /\ pc' = "L257"
    /\ UNCHANGED <<train_opt, edge_enhance, step, requires_grad_D, paramsG, paramsD,
                   paramsG0, paramsD0, l_g_total, l_g_gan, trace, outcome, script,
                   bp, chop>>

\* lines 257-260, then the method returns
LogD ==
    /\ pc = "L257"
    /\ log_dict' = LogSet(LogSet(LogSet(LogSet(log_dict, "l_d_real"), "l_d_fake"),
                                 "D_real"), "D_fake")
    /\ written' = written \cup DKeys
    /\ pc' = "idle"
    /\ outcome' = "returned"
    /\ UNCHANGED <<train_opt, edge_enhance, step, requires_grad_D, paramsG, paramsD,
                   paramsG0, paramsD0, l_g_total, l_g_gan, trace, script, bp, chop>>

Body ==
    \/ FreezeD \/ ForwardG \/ TestGate \/ PixelLoss \/ FeatureLoss \/ GanLossG
    \/ AddGan \/ EdgeLoss \/ BackwardG \/ ClipG \/ StepG \/ UnfreezeD \/ ForwardD
    \/ LossD \/ BackwardD \/ StepD \/ Totals \/ LogG \/ LogD

BpIdle == [pc |-> "off"]

\* the training fields of a model on which optimize_parameters is not running
TrainIdle ==
    /\ InitTrain
    /\ train_opt = [pixel_weight |-> 0, feature_weight |-> 0, gan_weight |-> 0,
                    edge_weight |-> 0, gan_type |-> "gan", D_update_ratio |-> 0,
                    D_init_iters |-> 0]
    /\ edge_enhance = TRUE
    /\ script = <<>>

ChopIdle == [pc |-> "off"]

Init ==
    /\ InitTrain
    /\ script = <<>>
    /\ bp = BpIdle
    /\ chop = ChopIdle

Next == Call \/ Body

Spec == Init /\ [][Next]_vars

----------------------------------------------------------------------------
(* The scripted scenario: D_update_ratio = 2, D_init_iters = 0, a supported *)
(* gan_type, and optimize_parameters called for step = 0, 1, 2, 3 in order  *)

InitScenario ==
    /\ InitTrain
    /\ train_opt.D_update_ratio = 2
    /\ train_opt.D_init_iters = 0
    /\ train_opt.gan_type \in {"gan", "ragan", "wgan-qc"}
    /\ script = <<0, 1, 2, 3>>
    /\ bp = BpIdle
    /\ chop = ChopIdle

NextScenario == ScriptedCall \/ Body

SpecScenario == InitScenario /\ [][NextScenario]_vars

----------------------------------------------------------------------------
(* Properties of optimize_parameters *)

Ended == pc = "idle" /\ outcome # "none"

Ran(op) == op \in Range(trace)

\* index of the first occurrence of op in the trace, 0 when there is none
Pos(op) ==
    IF Ran(op) THEN CHOOSE i \in DOMAIN trace :
                        trace[i] = op /\ \A j \in 1..(i - 1) : trace[j] # op
               ELSE 0

SupportedGan == train_opt.gan_type \in {"gan", "ragan", "wgan-qc"}

\* the gate as the specification words it
GateOn == step % D_update_ratio = 0 /\ step > D_init_iters

SteppedG == Ran("optimizer_G.step") /\ paramsG = paramsG0 + 1

SteppedD == Ran("optimizer_D.step") /\ paramsD = paramsD0 + 1

\* C1 (as stated): with D_update_ratio >= 1 and D_init_iters >= 0, in every
\* finished call the generator optimizer steps iff step mod D_update_ratio = 0
\* and step > D_init_iters, the discriminator optimizer steps in every call, and
\* a gated-off call leaves the generator parameters unchanged.
C1_AsStated ==
    (Ended /\ D_update_ratio >= 1 /\ D_init_iters >= 0)
        => /\ SteppedG <=> GateOn
           /\ SteppedD
           /\ ~GateOn => paramsG = paramsG0 /\ ~Ran("optimizer_G.step")

\* C1 (amended): the same, for the configurations whose gan_type is one of gan,
\* ragan, wgan-qc.
C1_GatedUpdates ==
    (Ended /\ D_update_ratio >= 1 /\ D_init_iters >= 0
           /\ SupportedGan)
        => /\ SteppedG <=> GateOn
           /\ SteppedD
           /\ ~GateOn => paramsG = paramsG0 /\ ~Ran("optimizer_G.step")

C1_Witness ==
    /\ Ended /\ SupportedGan
    /\ train_opt.D_update_ratio = 2 /\ train_opt.D_init_iters = 1
    /\ step = 3 /\ ~GateOn
    /\ paramsG0 = 1 /\ paramsG = 1 /\ paramsD0 = 1 /\ paramsD = 2

C3_GatedOffLog ==
    (Ended /\ SupportedGan /\ ~GateOn)
        => /\ outcome = "returned"
           /\ GKeys \cap Range(log_dict) = {}
           /\ DKeys \subseteq Range(log_dict)

\* C4 (as stated): for each of the four terms, a zero weight means that a call
\* never runs the term's forward computation, never adds it to l_g_total and
\* never writes its key.
C4_AsStated ==
    /\ train_opt.pixel_weight = 0
         => /\ ~Ran("cri_pix")
            /\ "l_g_pix" \notin Range(l_g_total)
            /\ "l_g_pix" \notin Range(log_dict)
    /\ train_opt.feature_weight = 0
         => /\ ~Ran("netF") /\ ~Ran("cri_fea")
            /\ "l_g_fea" \notin Range(l_g_total)
            /\ "l_g_fea" \notin Range(log_dict)
    /\ train_opt.gan_weight = 0
         => /\ ~Ran("netD_fake") /\ ~Ran("cri_gan_G")
            /\ "l_g_gan" \notin Range(l_g_total)
            /\ "l_g_gan" \notin Range(log_dict)
    /\ train_opt.edge_weight = 0
         => /\ ~Ran("cril_edge")
            /\ "l_g_edge" \notin Range(l_g_total)
            /\ "l_g_edge" \notin Range(log_dict)

\* C4 (amended): a zero pixel or feature weight means the term's criterion (and
\* the feature extractor) is never run, the term is never added to l_g_total and
\* its key is never logged; the adversarial term is computed, added and logged
\* by every gated-on call that returns, whatever gan_weight is; the edge term is
\* computed and added exactly when edge_enhance is set, whatever edge_weight is,
\* and no edge key is ever logged.
C4_ZeroWeights ==
    /\ train_opt.pixel_weight = 0
         => /\ ~Ran("cri_pix")
            /\ "l_g_pix" \notin Range(l_g_total)
            /\ "l_g_pix" \notin Range(log_dict)
    /\ train_opt.feature_weight = 0
         => /\ ~Ran("netF") /\ ~Ran("cri_fea")
            /\ "l_g_fea" \notin Range(l_g_total)
            /\ "l_g_fea" \notin Range(log_dict)
    /\ (Ended /\ outcome = "returned" /\ GateOn)
         => /\ Ran("netD_fake")
            /\ "l_g_gan" \in Range(l_g_total)
            /\ "l_g_gan" \in written
            /\ edge_enhance <=> Ran("cril_edge")
            /\ edge_enhance <=> "l_g_edge" \in Range(l_g_total)
    /\ "l_g_edge" \notin Range(log_dict)

C4_Witness ==
    /\ Ended /\ outcome = "returned" /\ train_opt.D_update_ratio = 2 /\ GateOn
    /\ train_opt.pixel_weight = 0 /\ train_opt.feature_weight = 0
    /\ train_opt.gan_weight = 0 /\ train_opt.edge_weight = 0 /\ edge_enhance
    /\ l_g_total = <<"l_g_gan", "l_g_edge">>
    /\ written = {"l_g_gan"} \cup DKeys

\* C7: under a gan_type other than gan, ragan, wgan-qc no optimizer step ever
\* runs, both parameter sets stay as constructed, and every call, gate on or
\* off, ends in an exception.
C7_UnknownGanType ==
    ~SupportedGan
        => /\ ~Ran("optimizer_G.step") /\ ~Ran("optimizer_D.step")
           /\ paramsG = 0 /\ paramsD = 0
           /\ Ended => outcome \in {"UnboundLocalError", "NotImplementedError"}
           /\ (Ended /\ GateOn) => outcome = "UnboundLocalError"
           /\ (Ended /\ ~GateOn) => outcome = "NotImplementedError"

C7_Witness ==
    /\ ~SupportedGan /\ Ended /\ train_opt.D_update_ratio = 2 /\ GateOn
    /\ outcome = "UnboundLocalError" /\ Ran("netD_fake")

GenPhase == {"L161", "L165", "L166", "L169", "L175", "L187", "L189", "L198",
             "L199", "L200", "L203"}

DisPhase == {"L206", "L211", "L243", "L244", "L246", "L249", "L257"}

PhaseOrder ==
    /\ pc \in GenPhase => ~requires_grad_D /\ Ran("freeze_D") /\ ~Ran("unfreeze_D")
    /\ Ran("netG") => Pos("freeze_D") < Pos("netG")
    /\ Ran("optimizer_G.step") =>
         /\ Ran("backward_G")
         /\ Pos("clip_grad_norm_G") = Pos("backward_G") + 1
         /\ Pos("optimizer_G.step") = Pos("clip_grad_norm_G") + 1
    /\ (Ran("optimizer_G.step") /\ Ran("unfreeze_D")) =>
         Pos("optimizer_G.step") < Pos("unfreeze_D")
    /\ pc \in DisPhase => requires_grad_D
    /\ Ran("zero_grad_D") => /\ Ran("unfreeze_D")
                             /\ Pos("unfreeze_D") < Pos("zero_grad_D")
    /\ Ran("optimizer_D.step") =>
         /\ Pos("optimizer_D.step") = Pos("backward_D") + 1
         /\ Pos("optimizer_G.step") < Pos("optimizer_D.step")
         /\ \A i \in DOMAIN trace :
                trace[i] = "clip_grad_norm_G" => i < Pos("unfreeze_D")

\* C10 (as stated): the phases of a call are ordered (discriminator frozen through
\* the generator phase, clipping between the generator's backward pass and its
\* optimizer step, unfreezing before the discriminator forward pass, the
\* discriminator step last and unclipped), and whenever a call has ended the
\* discriminator parameters are trainable again.
C10_AsStated ==
    /\ PhaseOrder
    /\ Ended => requires_grad_D

\* C10 (amended): the same order, and the discriminator parameters are trainable
\* again whenever a call has ended after reaching the unfreeze of line 203; a
\* call that raises inside the generator phase (line 187, gan_type not
\* supported on a gated-on step) leaves them frozen.
C10_PhaseOrder ==
    /\ PhaseOrder
    /\ (Ended /\ Ran("unfreeze_D")) => requires_grad_D
    /\ (Ended /\ ~Ran("unfreeze_D")) =>
           ~requires_grad_D /\ outcome = "UnboundLocalError"

C10_Witness ==
    /\ Ended /\ outcome = "returned" /\ requires_grad_D
    /\ Ran("optimizer_G.step") /\ Ran("optimizer_D.step")
    /\ Pos("clip_grad_norm_G") > 0
----------------------------------------------------------------------------
(* back_projection.  Intensities are exact fractions: an image holds integer *)
(* numerators over a denominator kept beside it, 1 standing for den/den.     *)

Scales == {1, 2}

\* (height, width) of var_L
BpShapes == {<<1, 1>>, <<1, 2>>, <<2, 1>>}

\* back_projection_lamda is a multiple of 1/LamdaDen in [0, 1]
LamdaDen == 2

Lamdas == 0..LamdaDen

Rows(img) == Cardinality(DOMAIN img)

Cols(img) == IF Rows(img) = 0 THEN 0 ELSE Cardinality(DOMAIN img[0])

Images(h, w, vals) == [0..(h - 1) -> [0..(w - 1) -> vals]]

FloorDiv(a, b) == IF a >= 0 THEN a \div b ELSE -((-a + b - 1) \div b)

\* the cubic convolution kernel with A = -3/4, times 256, at distance n/4:
\* ((A+2)x - (A+3))x^2 + 1 for |x| <= 1, ((Ax - 5A)x + 8A)x - 4A for 1 < |x| < 2
Cubic256(n) ==
    IF n <= 4 THEN (5 * n - 36) * n * n + 256
              ELSE -3 * (n * n * n - 20 * n * n + 128 * n - 256)

\* source coordinate of output index dst, in quarters of a pixel, for
\* align_corners=False: scale * (dst + 1/2) - 1/2 with scale = 1 / scale_factor
SrcQuarter(dst, down, s) ==
    IF down THEN 4 * s * dst + 2 * s - 2 ELSE (4 * dst + 2) \div s - 2

\* the common denominator of the four coefficients of one pass
PassDen(down, s) == IF s = 1 THEN 1 ELSE IF down THEN 32 ELSE 256

\* one output sample of a 1-D bicubic pass over line (a function on 0..n-1):
\* four taps around floor(src), indices clamped to the line
Tap(line, n, dst, down, s) ==
    LET q  == SrcQuarter(dst, down, s)
        i0 == FloorDiv(q, 4)
        t  == q - 4 * i0
        k  == 256 \div PassDen(down, s)
        at(i) == line[IF i < 0 THEN 0 ELSE IF i > n - 1 THEN n - 1 ELSE i]
    IN (Cubic256(4 + t) \div k) * at(i0 - 1) + (Cubic256(t) \div k) * at(i0)
       + (Cubic256(4 - t) \div k) * at(i0 + 1) + (Cubic256(8 - t) \div k) * at(i0 + 2)

\* torch.nn.functional.interpolate(img, scale_factor, mode='bicubic',
\* align_corners=False): numerators of the result over PassDen^2 times img's
Interpolate(img, down, s) ==
    LET h  == Rows(img)
        w  == Cols(img)
        oh == IF down THEN h \div s ELSE h * s
        ow == IF down THEN w \div s ELSE w * s
        horiz == [r \in 0..(h - 1) |->
                    [c \in 0..(ow - 1) |-> Tap(img[r], w, c, down, s)]]
        col(c) == [r \in 0..(h - 1) |-> horiz[r][c]]
    IN [r \in 0..(oh - 1) |-> [c \in 0..(ow - 1) |-> Tap(col(c), h, r, down, s)]]

InterpDen(down, s) == PassDen(down, s) * PassDen(down, s)

\* torch.clamp(t, lo, hi) on numerators over den: a new tensor
Clamp(img, lo, hi) ==
    [r \in DOMAIN img |-> [c \in DOMAIN img[r] |->
        IF img[r][c] < lo THEN lo ELSE IF img[r][c] > hi THEN hi ELSE img[r][c]]]

InitBP ==
    /\ \E s \in Scales, shape \in BpShapes, lam \in Lamdas :
         \E L \in Images(shape[1], shape[2], {0, 1}),
            H \in Images(shape[1] * s, shape[2] * s, {0, 1}) :
              bp = [scale |-> s, lamda |-> lam, var_L |-> L, fake_H |-> H,
                    den |-> 1, pc |-> "ready"]
    /\ TrainIdle
    /\ chop = ChopIdle

\* lines 269-278: the tensor torch.clamp returns is not assigned
back_projection ==
    /\ bp.pc = "ready"
    /\ LET s    == bp.scale
           d1   == InterpDen(TRUE, s)
           d2   == InterpDen(FALSE, s)
           down == Interpolate(bp.fake_H, TRUE, s)
           lr_error == [r \in DOMAIN bp.var_L |-> [c \in DOMAIN bp.var_L[r] |->
                          d1 * bp.var_L[r][c] - down[r][c]]]
           us_error == Interpolate(lr_error, FALSE, s)
           den  == d1 * d2 * LamdaDen
           sum  == [r \in DOMAIN bp.fake_H |-> [c \in DOMAIN bp.fake_H[r] |->
                      den * bp.fake_H[r][c] + bp.lamda * us_error[r][c]]]
           clamped == Clamp(sum, 0, den)
       IN bp' = [bp EXCEPT !.fake_H = sum, !.den = den, !.pc = "done"]
    /\ UNCHANGED <<trainVars, chop>>

NextBP == back_projection

SpecBP == InitBP /\ [][NextBP]_vars

\* C8: after back_projection has returned, every value of fake_H lies in [0, 1].
C8_Clamped ==
    bp.pc = "done" =>
        \A r \in DOMAIN bp.fake_H : \A c \in DOMAIN bp.fake_H[r] :
            0 <= bp.fake_H[r][c] /\ bp.fake_H[r][c] <= bp.den
----------------------------------------------------------------------------
(* forward_chop.  A tensor is [h, w, px]: its last two sizes and its values; *)
(* the pixels of the input carry distinct labels, so that a pixel of the     *)
(* output names the input pixel it was computed from.                        *)

MaxSide == 4          \* the input image is 2..MaxSide by 2..MaxSide
MaxShave == 2         \* shave is 0..MaxShave
MaxMinSize == 5       \* min_size is 1..MaxMinSize
MaxDevices == 5       \* torch.cuda.device_count() is 0..MaxDevices
RecursionLimit == 4   \* frames of forward_chop the interpreter allows

\* line 289: at most this many devices are used
MaxGPUs == 4

\* values an uninitialised buffer (Tensor.new) may hold; labels are >= 1
Garbage == {0, -1}

\* the input of test_chop: an h x w image of distinct labels
Labelled(h, w) ==
    [h |-> h, w |-> w,
     px |-> [r \in 0..(h - 1) |-> [c \in 0..(w - 1) |-> r * w + c + 1]]]

\* t[..., rows, cols] with rows, cols intervals [lo, hi) of t
Part(t, rs, cs) ==
    [h |-> rs[2] - rs[1], w |-> cs[2] - cs[1],
     px |-> [r \in 0..(rs[2] - rs[1] - 1) |-> [c \in 0..(cs[2] - cs[1] - 1) |->
               t.px[rs[1] + r][cs[1] + c]]]]

\* a slice bound as Python normalises it on a dimension of size n
PyBound(i, n) ==
    LET j == IF i < 0 THEN i + n ELSE i
    IN IF j < 0 THEN 0 ELSE IF j > n THEN n ELSE j

\* slice(start, stop) applied to a dimension of size n: the interval [lo, hi)
PySlice(start, stop, n) ==
    LET lo == PyBound(start, n)
        hi == PyBound(stop, n)
    IN <<lo, IF hi < lo THEN lo ELSE hi>>

\* slice(start, None)
PySliceFrom(start, n) == <<PyBound(start, n), n>>

\* t[..., rows, cols]
Crop(t, rows, cols) ==
    Part(t, PySlice(rows[1], rows[2], t.h), PySlice(cols[1], cols[2], t.w))

\* the generator of the claims: each output pixel depends on the input pixel at
\* the corresponding position only (nearest-neighbour by scale; the identity at
\* scale 1)
NetG(t, scale) ==
    [h |-> t.h * scale, w |-> t.w * scale,
     px |-> [r \in 0..(t.h * scale - 1) |-> [c \in 0..(t.w * scale - 1) |->
               t.px[r \div scale][c \div scale]]]]

\* line 306
BaseCase_le(h, w, min_size) == h * w <= 4 * min_size

BaseCase(h, w, min_size) == h * w < 4 * min_size

\* lines 294-303: the four quadrants, in the order of torch.cat
Quadrants(x, shave) ==
    LET h == x.h
        w == x.w
        top    == <<0, h \div 2 + shave>>
        bottom == <<h - h \div 2 - shave, h>>
        left   == <<0, w \div 2 + shave>>
        right  == <<w - w \div 2 - shave, w>>
    IN <<Crop(x, top, left), Crop(x, top, right),
         Crop(x, bottom, left), Crop(x, bottom, right)>>

\* torch.cat needs equal sizes outside the concatenated dimension
CatOk(qs) == \A i \in DOMAIN qs : qs[i].h = qs[1].h /\ qs[i].w = qs[1].w

\* _y[..., rows, cols] = src: src must have the target's shape, a size of 1
\* being broadcast; st is [ok, line, px, cnt], cnt counting the writes per pixel
Put(st, rows, cols, src, line) ==
    LET rs == PySlice(rows[1], rows[2], st.h)
        cs == PySlice(cols[1], cols[2], st.w)
        th == rs[2] - rs[1]
        tw == cs[2] - cs[1]
        fits == (src.h = th \/ src.h = 1) /\ (src.w = tw \/ src.w = 1)
        in(r, c) == rs[1] <= r /\ r < rs[2] /\ cs[1] <= c /\ c < cs[2]
    IN IF ~st.ok THEN st
       ELSE IF ~fits THEN [st EXCEPT !.ok = FALSE, !.line = line]
       ELSE [st EXCEPT
               !.px = [r \in 0..(st.h - 1) |-> [c \in 0..(st.w - 1) |->
                         IF in(r, c)
                           THEN src.px[IF src.h = 1 THEN 0 ELSE r - rs[1]]
                                      [IF src.w = 1 THEN 0 ELSE c - cs[1]]
                           ELSE st.px[r][c]]],
               !.cnt = [r \in 0..(st.h - 1) |-> [c \in 0..(st.w - 1) |->
                         IF in(r, c) THEN st.cnt[r][c] + 1 ELSE st.cnt[r][c]]]]

\* lines 327-342 on a node of size h0 x w0 with quadrant outputs ys; the buffer
\* of line 337 holds g where nothing is written
Stitch(ys, h0, w0, scale, g) ==
    LET h == h0 * scale
        w == w0 * scale
        top      == <<0, h \div 2>>
        bottom   == <<h - h \div 2, h>>
        left     == <<0, w \div 2>>
        right    == <<w - w \div 2, w>>
        rTop(t)  == PySlice(0, h \div 2, t.h)
        rBot(t)  == PySliceFrom(h \div 2 - h, t.h)
        cLeft(t) == PySlice(0, w \div 2, t.w)
        cRight(t) == PySliceFrom(w \div 2 - w, t.w)
        new == [ok |-> TRUE, line |-> 0, h |-> h, w |-> w,
                px |-> [r \in 0..(h - 1) |-> [c \in 0..(w - 1) |-> g]],
                cnt |-> [r \in 0..(h - 1) |-> [c \in 0..(w - 1) |-> 0]]]
        s1 == Put(new, top, left, Part(ys[1], rTop(ys[1]), cLeft(ys[1])), 339)
        s2 == Put(s1, top, right, Part(ys[2], rTop(ys[2]), cRight(ys[2])), 340)
        s3 == Put(s2, bottom, left, Part(ys[3], rBot(ys[3]), cLeft(ys[3])), 341)
    IN Put(s3, bottom, right, Part(ys[4], rBot(ys[4]), cRight(ys[4])), 342)

Top(stack) == stack[Len(stack)]

SetTop(stack, f) == [stack EXCEPT ![Len(stack)] = f]

Frame(x) == [x |-> x, pc |-> "enter", x_chops |-> <<>>, y_chops |-> <<>>]

Min(a, b) == IF a < b THEN a ELSE b

\* test_chop calls forward_chop(var_L): labelled input, default-free arguments
InitChop ==
    /\ \E h \in 2..MaxSide, w \in 2..MaxSide, shave \in 0..MaxShave,
          min_size \in 1..MaxMinSize, scale \in Scales, devices \in 0..MaxDevices :
         chop = [pc |-> "run", scale |-> scale, shave |-> shave,
                 min_size |-> min_size, n_GPUs |-> Min(devices, MaxGPUs),
                 var_L |-> Labelled(h, w),
                 stack |-> <<Frame(Labelled(h, w))>>,
                 tiles |-> {}, cover |-> <<>>, depth |-> 1,
                 err |-> "", fake_H |-> <<>>]
    /\ TrainIdle
    /\ bp = BpIdle

ChopRaise(e) == chop' = [chop EXCEPT !.pc = "error", !.err = e, !.stack = <<>>]

\* lines 288-306 of one invocation.  squeeze() drops a spatial dimension of
\* size 1, so the tensor that reaches the slicing has lost its height or width:
\* that invocation is taken to fail
ChopEnter ==
    /\ chop.pc = "run"
    /\ Top(chop.stack).pc = "enter"
    /\ LET f  == Top(chop.stack)
           qs == Quadrants(f.x, chop.shave)
       IN IF f.x.h = 1 \/ f.x.w = 1 THEN ChopRaise("squeezed")
          ELSE IF ~CatOk(qs) THEN ChopRaise("cat")
          ELSE chop' = [chop EXCEPT !.stack = SetTop(chop.stack,
                          [f EXCEPT !.x_chops = qs,
                                    !.pc = IF BaseCase(f.x.h, f.x.w, chop.min_size)
                                             THEN "base" ELSE "recurse"])]
    /\ UNCHANGED <<trainVars, bp>>

\* lines 307-316: one pass of the loop, one data_parallel call on n_GPUs tiles
ChopDispatch ==
    /\ chop.pc = "run"
    /\ Top(chop.stack).pc = "base"
    /\ LET f == Top(chop.stack)
           i == Len(f.y_chops)
           n == chop.n_GPUs
           group == SubSeq(f.x_chops, i + 1, Min(i + n, 4))
           ys == [k \in DOMAIN group |-> NetG(group[k], chop.scale)]
           out == f.y_chops \o ys
       IN IF n = 0 THEN ChopRaise("range")
          ELSE chop' = [chop EXCEPT
                 !.tiles = @ \cup {[th |-> group[k].h, tw |-> group[k].w,
                                    h |-> f.x.h, w |-> f.x.w,
                                    depth |-> Len(chop.stack)] : k \in DOMAIN group},
                 !.stack = SetTop(chop.stack,
                             [f EXCEPT !.y_chops = out,
                                       !.pc = IF Len(out) = 4 THEN "stitch" ELSE "base"])]
    /\ UNCHANGED <<trainVars, bp>>

\* lines 319-320: the next quadrant is passed to a nested invocation
ChopRecurse ==
    /\ chop.pc = "run"
    /\ Top(chop.stack).pc = "recurse"
    /\ LET f == Top(chop.stack)
           p == f.x_chops[Len(f.y_chops) + 1]
       IN IF Len(chop.stack) >= RecursionLimit THEN ChopRaise("RecursionError")
          ELSE chop' = [chop EXCEPT !.stack = Append(chop.stack, Frame(p)),
                                    !.depth = IF Len(chop.stack) + 1 > @
                                                THEN Len(chop.stack) + 1 ELSE @]
    /\ UNCHANGED <<trainVars, bp>>

\* lines 327-347, then the caller's lines 321-325 (or test_chop's line 283)
ChopStitch ==
    /\ chop.pc = "run"
    /\ Top(chop.stack).pc = "stitch"
    /\ \E g \in Garbage :
         LET f  == Top(chop.stack)
             st == Stitch(f.y_chops, f.x.h, f.x.w, chop.scale, g)
             y  == [h |-> st.h, w |-> st.w, px |-> st.px]
             n  == Len(chop.stack)
             cv == [h |-> f.x.h, w |-> f.x.w, ok |-> st.ok, cnt |-> st.cnt]
         IN IF ~st.ok
              THEN chop' = [chop EXCEPT !.pc = "error", !.err = "setitem",
                                        !.stack = <<>>, !.cover = cv]
              ELSE IF n = 1
                THEN chop' = [chop EXCEPT !.pc = "returned", !.fake_H = y,
                                          !.stack = <<>>, !.cover = cv]
                ELSE LET parent == chop.stack[n - 1]
                         out == Append(parent.y_chops, y)
                     IN chop' = [chop EXCEPT
                          !.cover = cv,
                          !.stack = Append(SubSeq(chop.stack, 1, n - 2),
                              [parent EXCEPT !.y_chops = out,
                                  !.pc = IF Len(out) = 4 THEN "stitch" ELSE "recurse"])]
    /\ UNCHANGED <<trainVars, bp>>

NextChop == ChopEnter \/ ChopDispatch \/ ChopRecurse \/ ChopStitch

SpecChop == InitChop /\ [][NextChop]_vars
----------------------------------------------------------------------------
(* Properties of forward_chop *)

\* C5: every stitching step that completes (on a node of height >= 2 and width
\* >= 2, any scale) has written every pixel of its (h*scale) x (w*scale) buffer
\* exactly once: the four target regions are disjoint and cover the buffer.
C5_ExactTiling ==
    (chop.pc # "off" /\ chop.cover # <<>> /\ chop.cover.ok)
        => /\ chop.cover.h >= 2 /\ chop.cover.w >= 2
           /\ \A r \in DOMAIN chop.cover.cnt : \A c \in DOMAIN chop.cover.cnt[r] :
                  chop.cover.cnt[r][c] = 1

\* C6: when the image is a base case (h*w < 4*min_size), shave >= 1 and a device
\* is present, forward_chop returns, and returns what the generator gives on the
\* whole image.
C6_BaseEqualsWhole ==
    (/\ chop.pc \in {"returned", "error"}
     /\ chop.var_L.h * chop.var_L.w < 4 * chop.min_size
     /\ chop.shave >= 1
     /\ chop.n_GPUs >= 1)
        => /\ chop.pc = "returned"
           /\ chop.fake_H = NetG(chop.var_L, chop.scale)

Dispatched == IF chop.pc = "off" THEN {} ELSE chop.tiles

\* C9 (as stated): every tile dispatched to the generator has area < min_size.
C9_AsStated ==
    \A t \in Dispatched : t.th * t.tw < chop.min_size

\* C9 (amended): every tile dispatched to the generator is a quadrant of a node
\* with h*w < 4*min_size; its core (h//2) x (w//2) has area < min_size, the tile
\* itself ((h//2+shave) x (w//2+shave), cut to the node) has area at most h*w,
\* hence below 4*min_size, and below min_size when shave = 0.
C9_TileArea ==
    \A t \in Dispatched :
        /\ t.h * t.w < 4 * chop.min_size
        /\ (t.h \div 2) * (t.w \div 2) < chop.min_size
        /\ t.th = Min(t.h, t.h \div 2 + chop.shave)
        /\ t.tw = Min(t.w, t.w \div 2 + chop.shave)
        /\ t.th * t.tw <= t.h * t.w
        /\ t.th * t.tw < 4 * chop.min_size
        /\ chop.shave = 0 => t.th * t.tw < chop.min_size

C9_Witness ==
    /\ chop.pc = "returned"
    /\ \E t \in Dispatched : t.depth >= 2 /\ t.th * t.tw >= chop.min_size
    /\ \E t \in Dispatched : t.depth = 2 /\ t.h < chop.var_L.h

Area(x) == x.h * x.w

Frames == IF chop.pc = "run" THEN chop.stack ELSE <<>>

\* C11: forward_chop terminates: every nested invocation is made on a quadrant
\* whose area is strictly smaller than the area of its caller's image, and the
\* recursion never runs into the interpreter's limit of nested frames.
C11_Terminates ==
    /\ \A i \in 2..Len(Frames) : Area(Frames[i].x) < Area(Frames[i - 1].x)
    /\ (chop.pc = "error" => chop.err # "RecursionError")

====
